---------------------------- MODULE Spec2Model ----------------------------
(***************************************************************************)
(* Outer: the workflow driver of src/outer/__init__.py (OuterApp), its     *)
(* artifact locator (find_planning_files, get_slug_from_files), slugify    *)
(* and the session runner (_run_claude).                                   *)
(*                                                                         *)
(* Strings are sequences of one-character strings, so that suffix tests,   *)
(* stems and slugs are computed and not assumed.  A path is a record       *)
(* [dir, name] relative to the project root (self.cwd).                    *)
(*                                                                         *)
(* Scheduling: handlers of the Textual message pump run to completion; a   *)
(* worker (@work) is an asyncio task that runs from one await to the next  *)
(* atomically.  The only await of a phase worker is the `async for` over   *)
(* query() in _run_claude, so a worker has three kinds of step: its start  *)
(* (up to the opening of the exchange), one step per message received,     *)
(* and the end of the stream followed by the rest of run_phase_*.          *)
(***************************************************************************)
EXTENDS Integers, Sequences, FiniteSets, TLC

VARIABLES
    fs,           \* the project directory: [dirs, file], file: path -> content
    files,        \* self.files: artifact kind -> path or NoPath
    slug,         \* self.slug: a string or None
    running,      \* self.running
    total_cost,   \* self.total_cost
    total_turns,  \* self.total_turns
    workers,      \* the live workers of the app (Textual's WorkerManager)
    nworkers,     \* number of workers created so far (gives workers their id)
    screen,       \* "init" before on_mount, "main", "plan" (PlanInputScreen), "closed"
    nchanges,     \* number of external changes of the file system so far
    output,       \* the entries written to the #output RichLog by the last step
    provider      \* the streams the provider answers with: "brief" or "scripted"

vars == <<fs, files, slug, running, total_cost, total_turns, workers,
          nworkers, screen, nchanges, output, provider>>

----------------------------------------------------------------------------
(* Bounds of the model *)

\* workers (sessions requested) over the life of the process
MaxWorkers == 2
\* messages in one provider stream of the application specification
MaxEvents == 1
\* external changes of the file system (the provider's writes and other edits)
MaxFsChanges == 1
\* messages in one provider stream of the session specification
MaxStream == 3
\* length of the varying part of a description of the identity specification
MaxTail == 3
\* length of the fixed alphanumeric head of its long descriptions
PadLen == 28

----------------------------------------------------------------------------
(* Strings *)

\* Python's None where a str is expected (no string has a 4-character element)
None == <<"None">>

\* Python's None where a Path is expected
NoPath == [dir |-> "", name |-> <<>>]

\* total_cost_usd = None of a ResultMessage
NoCost == 0 - 1

Upper == <<"A","B","C","D","E","F","G","H","I","J","K","L","M",
           "N","O","P","Q","R","S","T","U","V","W","X","Y","Z">>

Lower == <<"a","b","c","d","e","f","g","h","i","j","k","l","m",
           "n","o","p","q","r","s","t","u","v","w","x","y","z">>

Digits == {"0","1","2","3","4","5","6","7","8","9"}

\* the character class [a-z0-9] of slugify's pattern
AlnumLower == {Lower[i] : i \in 1..26} \cup Digits

\* str.lower() on one character
lower(c) ==
    IF \E i \in 1..26 : Upper[i] = c
    THEN Lower[CHOOSE i \in 1..26 : Upper[i] = c]
    ELSE c

\* str.endswith
endswith(s, suffix) ==
    /\ Len(suffix) <= Len(s)
    /\ SubSeq(s, Len(s) - Len(suffix) + 1, Len(s)) = suffix

\* s[:n] for n >= 0
prefix(s, n) == SubSeq(s, 1, IF n < Len(s) THEN n ELSE Len(s))

\* s[:-n] for n > 0
drop_last(s, n) == SubSeq(s, 1, Len(s) - n)

\* str.replace('_', '-')
replace_underscores(s) == [i \in 1..Len(s) |-> IF s[i] = "_" THEN "-" ELSE s[i]]

\* re.sub(r'[^a-z0-9]+', '_', s): every maximal run of other characters
\* becomes one underscore.  `inrun` says the previous character was replaced.
RECURSIVE sub_runs(_, _)
sub_runs(s, inrun) ==
    IF s = <<>> THEN <<>>
    ELSE IF Head(s) \in AlnumLower
         THEN <<Head(s)>> \o sub_runs(Tail(s), FALSE)
         ELSE IF inrun THEN sub_runs(Tail(s), TRUE)
              ELSE <<"_">> \o sub_runs(Tail(s), TRUE)

\* str.lstrip('_')
RECURSIVE lstrip(_)
lstrip(s) == IF s # <<>> /\ Head(s) = "_" THEN lstrip(Tail(s)) ELSE s

\* str.rstrip('_')
RECURSIVE rstrip(_)
rstrip(s) ==
    IF s # <<>> /\ s[Len(s)] = "_" THEN rstrip(SubSeq(s, 1, Len(s) - 1)) ELSE s

\* str.strip('_')
strip(s) == rstrip(lstrip(s))

\* the mutation of C13: the underscores at the ends are kept
slugify_unstripped(name) ==
    sub_runs([i \in 1..Len(name) |-> lower(name[i])], FALSE)

slugify(name) ==
    strip(sub_runs([i \in 1..Len(name) |-> lower(name[i])], FALSE))

\* the cap of run_phase_plan: slugify(description)[:30]
SlugCap == 30

----------------------------------------------------------------------------
(* File names *)

ARCHITECTURE == <<"_","A","R","C","H","I","T","E","C","T","U","R","E">>
ROADMAP == <<"_","R","O","A","D","M","A","P">>
PHASE_INDEX == <<"_","P","H","A","S","E","_","I","N","D","E","X">>
RESUME_PROMPT == <<"_","R","E","S","U","M","E","_","P","R","O","M","P","T">>
MD == <<".","m","d">>

Kinds == {"architecture", "roadmap", "phase_index", "resume_prompt"}

\* the suffix of the glob pattern of each kind, without the extension
Suffix(kind) ==
    CASE kind = "architecture" -> ARCHITECTURE
      [] kind = "roadmap" -> ROADMAP
      [] kind = "phase_index" -> PHASE_INDEX
      [] kind = "resume_prompt" -> RESUME_PROMPT

\* the directory searched for each kind
DirOf(kind) == IF kind = "phase_index" THEN "docs/phases" ELSE "docs"

\* the artifact the prompts ask the provider to write: docs/{slug}_KIND.md
Artifact(kind, s) == [dir |-> DirOf(kind), name |-> s \o Suffix(kind) \o MD]

\* the index of the last "." of a name, 0 if there is none
LastDot(name) ==
    IF \E i \in 1..Len(name) : name[i] = "."
    THEN CHOOSE i \in 1..Len(name) :
            /\ name[i] = "."
            /\ \A j \in (i+1)..Len(name) : name[j] # "."
    ELSE 0

\* the mutation of C22: the name with its extension (Path.name for Path.stem)
stem_with_suffix(name) == name

\* PurePath.stem: the name without its last suffix
stem(name) ==
    LET i == LastDot(name)
    IN  IF i > 1 /\ i < Len(name) THEN SubSeq(name, 1, i - 1) ELSE name

----------------------------------------------------------------------------
(* The file system *)

\* Path.exists() of a directory
dir_exists(f, d) == d \in f.dirs

\* the mutation of C7: a recursive search (rglob)
glob_recursive(f, d, suffix) ==
    IF ~dir_exists(f, d) THEN {}
    ELSE {p \in DOMAIN f.file :
            /\ p.dir \in {d, "docs/phases"}
            /\ endswith(p.name, suffix \o MD)}

\* Path.glob("*" + suffix + ".md"): the files directly in d whose name matches
glob(f, d, suffix) ==
    IF ~dir_exists(f, d) THEN {}
    ELSE {p \in DOMAIN f.file : p.dir = d /\ endswith(p.name, suffix \o MD)}

\* "for f in glob: result[kind] = f; break": the first file in the order of
\* the directory listing, which is any of the matching files
first_of(matches) == IF matches = {} THEN {NoPath} ELSE matches

\* find_planning_files(cwd): the results the directory listing allows
find_planning_files(f) ==
    IF ~dir_exists(f, "docs")
    THEN {[k \in Kinds |-> NoPath]}
    ELSE {[architecture |-> a, roadmap |-> r, phase_index |-> i, resume_prompt |-> m] :
             a \in first_of(glob(f, "docs", ARCHITECTURE)),
             r \in first_of(glob(f, "docs", ROADMAP)),
             i \in first_of(IF dir_exists(f, "docs/phases")
                            THEN glob(f, "docs/phases", PHASE_INDEX) ELSE {}),
             m \in first_of(glob(f, "docs", RESUME_PROMPT))}

\* the inner loop of get_slug_from_files: the first suffix the name ends with
RECURSIVE strip_first_suffix(_, _)
strip_first_suffix(name, suffixes) ==
    IF suffixes = <<>> THEN None
    ELSE IF endswith(name, Head(suffixes))
         THEN drop_last(name, Len(Head(suffixes)))
         ELSE strip_first_suffix(name, Tail(suffixes))

\* the outer loop of get_slug_from_files over the keys, then phase_index
RECURSIVE slug_from_keys(_, _)
slug_from_keys(fl, keys) ==
    IF keys = <<>>
    THEN IF fl["phase_index"] # NoPath
            /\ endswith(stem(fl["phase_index"].name), PHASE_INDEX)
         THEN drop_last(stem(fl["phase_index"].name), Len(PHASE_INDEX))
         ELSE None
    ELSE LET hit == IF fl[Head(keys)] # NoPath
                    THEN strip_first_suffix(stem(fl[Head(keys)].name),
                                            <<ARCHITECTURE, ROADMAP, RESUME_PROMPT>>)
                    ELSE None
         IN  IF hit # None THEN hit ELSE slug_from_keys(fl, Tail(keys))

\* the mutation of C6: the roadmap examined before the architecture
get_slug_roadmap_first(fl) ==
    slug_from_keys(fl, <<"roadmap", "architecture", "resume_prompt">>)

get_slug_from_files(fl) ==
    slug_from_keys(fl, <<"architecture", "roadmap", "resume_prompt">>)


----------------------------------------------------------------------------
(* Entries of the output log, prompts, provider messages *)

\* one RichLog.write: a tag for the literal text, and the values formatted in
Entry(tag, arg, str) == [tag |-> tag, arg |-> arg, str |-> str]

\* f"{slug}" of a str | None
fmt(s) == IF s = None THEN <<"N","o","n","e">> ELSE s

\* bool(self.slug): None and "" are falsy
truthy(s) == s # None /\ s # <<>>

\* PROMPTS[template].format(...): the template and the values bound in it
Prompt(template, description, s, arch_path, roadmap_path, text) ==
    [template |-> template, description |-> description, slug |-> s,
     arch_path |-> arch_path, roadmap_path |-> roadmap_path, text |-> text]

NoPrompt == Prompt("", <<>>, <<>>, NoPath, NoPath, 0)

\* the literal "docs/ROADMAP.md" of run_phase_prompt
DefaultRoadmap == [dir |-> "docs", name |-> <<"R","O","A","D","M","A","P">> \o MD]

\* result_info = {} of _run_claude
EmptyInfo == [set |-> FALSE, num_turns |-> 0, total_cost_usd |-> 0, is_error |-> FALSE]

\* dict.get(key, default)
dict_get(info, key, default) == IF info.set THEN info[key] ELSE default

\* "x or 0" on a number or None
or_zero(x) == IF x = NoCost \/ x = 0 THEN 0 ELSE x

\* the blocks of an AssistantMessage
TextBlock(t) == [type |-> "TextBlock", text |-> t, name |-> "", input |-> ""]
ToolUseBlock(n, i) == [type |-> "ToolUseBlock", text |-> "", name |-> n, input |-> i]
ThinkingBlock(t) == [type |-> "ThinkingBlock", text |-> t, name |-> "", input |-> ""]

\* the messages of the stream of query()
AssistantMessage(content) ==
    [type |-> "AssistantMessage", content |-> content,
     num_turns |-> 0, total_cost_usd |-> 0, is_error |-> FALSE]
ResultMessage(turns, cost, is_error) ==
    [type |-> "ResultMessage", content |-> <<>>,
     num_turns |-> turns, total_cost_usd |-> cost, is_error |-> is_error]
SystemMessage ==
    [type |-> "SystemMessage", content |-> <<>>,
     num_turns |-> 0, total_cost_usd |-> 0, is_error |-> FALSE]

\* the mutation of C10: the blocks written last to first
RECURSIVE write_blocks_reversed(_)
write_blocks_reversed(content) ==
    IF content = <<>> THEN <<>>
    ELSE LET block == Head(content)
         IN  write_blocks_reversed(Tail(content))
             \o (IF block.type = "TextBlock"
                 THEN <<Entry("text", block.text, <<>>)>>
                 ELSE IF block.type = "ToolUseBlock"
                      THEN <<Entry("tool", block.name, <<>>)>>
                      ELSE <<>>)

\* "for block in message.content": the writes of one AssistantMessage
RECURSIVE write_blocks(_)
write_blocks(content) ==
    IF content = <<>> THEN <<>>
    ELSE LET block == Head(content)
         IN  (IF block.type = "TextBlock"
              THEN <<Entry("text", block.text, <<>>)>>
              ELSE IF block.type = "ToolUseBlock"
                   THEN <<Entry("tool", block.name, <<>>)>>
                   ELSE <<>>)
             \o write_blocks(Tail(content))

\* the mutation of C8: the first result is kept
next_info_first(info, message) ==
    IF message.type = "ResultMessage" /\ ~info.set
    THEN [set |-> TRUE, num_turns |-> message.num_turns,
          total_cost_usd |-> message.total_cost_usd, is_error |-> message.is_error]
    ELSE info

\* the body of the `async for` of _run_claude on result_info
next_info(info, message) ==
    IF message.type = "ResultMessage"
    THEN [set |-> TRUE, num_turns |-> message.num_turns,
          total_cost_usd |-> message.total_cost_usd, is_error |-> message.is_error]
    ELSE info

\* the body of the `async for` of _run_claude on the output log
next_writes(message) ==
    IF message.type = "AssistantMessage" THEN write_blocks(message.content) ELSE <<>>

----------------------------------------------------------------------------
(* File system operations *)

\* Path.mkdir(exist_ok=True) and Path.mkdir(parents=True, exist_ok=True)
mkdir(f, ds) == [f EXCEPT !.dirs = @ \cup ds]

\* Path.write_text(content)
write_text(f, p, content) == [f EXCEPT !.file = (p :> content) @@ @]

\* Path.exists() of a file
file_exists(f, p) == p \in DOMAIN f.file

\* the external `rm`
remove(f, p) == [f EXCEPT !.file = [q \in (DOMAIN @) \ {p} |-> @[q]]]

\* .claude/commands/{cmd_name}.md of action_run_install
CommandFile(s) ==
    [dir |-> ".claude/commands",
     name |-> <<"r","e","s","u","m","e","-">> \o replace_underscores(s) \o MD]

----------------------------------------------------------------------------
(* Workers: @work(exclusive=True) *)

Phases == {"plan", "roadmap", "phases", "prompt", "execute"}

\* the worker created by a call of a run_phase_* method, not yet started
NewWorker(id, phase, description) ==
    [id |-> id, phase |-> phase, description |-> description, state |-> "pending",
     prompt |-> NoPrompt, stream |-> <<>>, pos |-> 0,
     result_info |-> EmptyInfo, written |-> <<>>]

\* the mutation of C1: workers that are not exclusive
NotExclusive == FALSE

\* exclusive=True: starting a worker cancels the workers of its group
Exclusive == TRUE

\* the call of a @work method: the new worker is scheduled, the others are
\* cancelled (a cancelled worker runs no further step of its coroutine)
run_worker(phase, description) ==
    /\ nworkers < MaxWorkers
    /\ nworkers' = nworkers + 1
    /\ workers' = (IF Exclusive THEN {} ELSE workers)
                    \cup {NewWorker(nworkers + 1, phase, description)}

\* an exception that leaves a handler or a worker: the app exits
\* (App._handle_exception), which cancels its workers
crash ==
    /\ screen' = "closed"
    /\ workers' = {}

----------------------------------------------------------------------------
(* OuterApp: the handlers *)

\* a handler that returns after writing `entries` to the log
log_only(entries) ==
    /\ output' = entries
    /\ UNCHANGED <<fs, files, slug, running, total_cost, total_turns, workers,
                   nworkers, screen, nchanges, provider>>

\* the mutation of C21: a refresh that replaces self.files alone
refresh_status_files_only(f) ==
    \E r \in find_planning_files(f) :
        /\ files' = r
        /\ slug' = slug

\* refresh_status: self.files and self.slug are recomputed from the directory
refresh_status(f) ==
    \E r \in find_planning_files(f) :
        /\ files' = r
        /\ slug' = get_slug_from_files(r)

on_mount ==
    /\ screen = "init"
    /\ screen' = "main"
    /\ refresh_status(fs)
    /\ output' = <<Entry("Outer - Claude Code Planning Workflow", "", <<>>),
                   Entry("Working directory:", "", <<>>),
                   IF truthy(slug') THEN Entry("Project:", "", slug')
                   ELSE Entry("No project found. Press 1 to start planning.", "", <<>>)>>
    /\ UNCHANGED <<fs, running, total_cost, total_turns, workers, nworkers, nchanges, provider>>

\* the mutation of C11: the totals replaced by the last session's result
update_info_overwrite(cost, turns) ==
    /\ total_cost' = cost
    /\ total_turns' = turns

\* update_info(cost, turns)
update_info(cost, turns) ==
    /\ total_cost' = total_cost + cost
    /\ total_turns' = total_turns + turns

action_refresh ==
    /\ refresh_status(fs)
    /\ output' = <<Entry("Status refreshed", "", <<>>)>>
    /\ UNCHANGED <<fs, running, total_cost, total_turns, workers, nworkers,
                   screen, nchanges, provider>>

action_clear_output == log_only(<<>>)

\* App.action_quit: the app exits and its workers are cancelled
action_quit ==
    /\ crash
    /\ output' = <<>>
    /\ UNCHANGED <<fs, files, slug, running, total_cost, total_turns, nworkers, nchanges, provider>>

\* a handler that passes its checks and calls a run_phase_* method
schedule(phase, description) ==
    /\ run_worker(phase, description)
    /\ output' = <<>>
    /\ UNCHANGED <<fs, files, slug, running, total_cost, total_turns, nchanges, provider>>

action_run_plan ==
    IF running THEN log_only(<<>>)
    ELSE /\ screen' = "plan"
         /\ output' = <<>>
         /\ UNCHANGED <<fs, files, slug, running, total_cost, total_turns, workers,
                        nworkers, nchanges, provider>>

\* the mutation of C3: the refusal without its message
action_run_roadmap_silent ==
    IF running THEN log_only(<<>>)
    ELSE IF files["architecture"] = NoPath
         THEN log_only(<<>>)
         ELSE schedule("roadmap", <<>>) /\ UNCHANGED screen

action_run_roadmap ==
    IF running THEN log_only(<<>>)
    ELSE IF files["architecture"] = NoPath
         THEN log_only(<<Entry("No architecture file found. Run Plan first.", "", <<>>)>>)
         ELSE schedule("roadmap", <<>>) /\ UNCHANGED screen

\* the mutation of C2: the gate of the previous phase
action_run_phases_wrong_gate ==
    IF running THEN log_only(<<>>)
    ELSE IF files["architecture"] = NoPath
         THEN log_only(<<Entry("No roadmap file found. Run Roadmap first.", "", <<>>)>>)
         ELSE schedule("phases", <<>>) /\ UNCHANGED screen

action_run_phases ==
    IF running THEN log_only(<<>>)
    ELSE IF files["roadmap"] = NoPath
         THEN log_only(<<Entry("No roadmap file found. Run Roadmap first.", "", <<>>)>>)
         ELSE schedule("phases", <<>>) /\ UNCHANGED screen

action_run_prompt ==
    IF running THEN log_only(<<>>)
    ELSE IF files["phase_index"] = NoPath
         THEN log_only(<<Entry("No phase files found. Run Phases first.", "", <<>>)>>)
         ELSE schedule("prompt", <<>>) /\ UNCHANGED screen

\* the mutation of C4: no check of self.running
action_run_execute_unguarded ==
    IF files["resume_prompt"] = NoPath
    THEN log_only(<<Entry("No resume prompt found. Run Prompt first.", "", <<>>)>>)
    ELSE schedule("execute", <<>>) /\ UNCHANGED screen

action_run_execute ==
    IF running THEN log_only(<<>>)
    ELSE IF files["resume_prompt"] = NoPath
         THEN log_only(<<Entry("No resume prompt found. Run Prompt first.", "", <<>>)>>)
         ELSE schedule("execute", <<>>) /\ UNCHANGED screen

\* the mutation of C16: an install that keeps a command file already there
action_run_install_keep ==
    IF running THEN log_only(<<>>)
    ELSE IF files["resume_prompt"] = NoPath
         THEN log_only(<<Entry("No resume prompt found. Run Prompt first.", "", <<>>)>>)
         ELSE IF slug = None \/ ~file_exists(fs, files["resume_prompt"])
              THEN /\ crash
                   /\ fs' = IF slug = None THEN fs
                            ELSE mkdir(fs, {".claude", ".claude/commands"})
                   /\ output' = <<>>
                   /\ UNCHANGED <<files, slug, running, total_cost, total_turns,
                                  nworkers, nchanges, provider>>
              ELSE /\ fs' = IF file_exists(fs, CommandFile(slug)) THEN fs
                            ELSE write_text(mkdir(fs, {".claude", ".claude/commands"}),
                                            CommandFile(slug),
                                            fs.file[files["resume_prompt"]])
                   /\ output' = <<Entry("Installed slash command:", "",
                                        drop_last(CommandFile(slug).name, Len(MD)))>>
                   /\ refresh_status(fs')
                   /\ UNCHANGED <<running, total_cost, total_turns, workers,
                                  nworkers, screen, nchanges, provider>>

action_run_install ==
    IF running THEN log_only(<<>>)
    ELSE IF files["resume_prompt"] = NoPath
         THEN log_only(<<Entry("No resume prompt found. Run Prompt first.", "", <<>>)>>)
         ELSE IF slug = None \/ ~file_exists(fs, files["resume_prompt"])
              THEN \* AttributeError of None.replace, or read_text of a file
                   \* that is gone (after the mkdir in that case)
                   /\ crash
                   /\ fs' = IF slug = None THEN fs
                            ELSE mkdir(fs, {".claude", ".claude/commands"})
                   /\ output' = <<>>
                   /\ UNCHANGED <<files, slug, running, total_cost, total_turns,
                                  nworkers, nchanges, provider>>
              ELSE /\ fs' = write_text(mkdir(fs, {".claude", ".claude/commands"}),
                                       CommandFile(slug),
                                       fs.file[files["resume_prompt"]])
                   /\ output' = <<Entry("Installed slash command:", "",
                                        drop_last(CommandFile(slug).name, Len(MD)))>>
                   /\ refresh_status(fs')
                   /\ UNCHANGED <<running, total_cost, total_turns, workers,
                                  nworkers, screen, nchanges, provider>>

\* on_button_pressed(event) for the button of a handler
on_button_pressed(action) ==
    IF running
    THEN log_only(<<Entry("Session already running...", "", <<>>)>>)
    ELSE action

\* on_button_pressed(event) for a button of the plan dialog, whose
\* Button.Pressed bubbles from the screen to the app: no action has its id
bubbled ==
    IF running THEN <<Entry("Session already running...", "", <<>>)>> ELSE <<>>

----------------------------------------------------------------------------
(* PlanInputScreen *)

\* str.strip(): leading and trailing blanks removed
RECURSIVE strip_ws(_)
strip_ws(s) ==
    IF s # <<>> /\ Head(s) = " " THEN strip_ws(Tail(s))
    ELSE IF s # <<>> /\ s[Len(s)] = " " THEN strip_ws(SubSeq(s, 1, Len(s) - 1))
         ELSE s

\* dismiss(value) and the callback handle_result of action_run_plan;
\* `entries` is what the app's own handlers write for the same event
dismiss(value, entries) ==
    /\ screen' = "main"
    /\ output' = entries
    /\ IF value # None /\ value # <<>>
       THEN run_worker("plan", value)
       ELSE UNCHANGED <<workers, nworkers>>
    /\ UNCHANGED <<fs, files, slug, running, total_cost, total_turns, nchanges, provider>>

\* PlanInputScreen.on_button_pressed for plan-submit, then the app's
plan_submit_button(text) ==
    IF strip_ws(text) # <<>> THEN dismiss(strip_ws(text), bubbled) ELSE log_only(bubbled)

\* PlanInputScreen.on_button_pressed for plan-cancel, then the app's
plan_cancel_button == dismiss(None, bubbled)

\* PlanInputScreen.on_input_submitted
on_input_submitted(text) ==
    IF strip_ws(text) # <<>> THEN dismiss(strip_ws(text), <<>>) ELSE log_only(<<>>)

\* PlanInputScreen.action_cancel
action_cancel == dismiss(None, <<>>)

----------------------------------------------------------------------------
(* The phase workers *)

\* all sequences over S of length at most n
SeqUpTo(S, n) == UNION {[1..k -> S] : k \in 0..n}

\* the messages a provider stream of the application specification is made of
MainMessages ==
    {AssistantMessage(<<TextBlock("t1"), ToolUseBlock("Write", "i1")>>),
     ResultMessage(2, 1, FALSE)}

\* the messages a provider stream of the session specification is made of
SessionMessages ==
    {AssistantMessage(<<>>),
     AssistantMessage(<<TextBlock("t1")>>),
     AssistantMessage(<<ToolUseBlock("Bash", "i1"), TextBlock("t2")>>),
     AssistantMessage(<<ThinkingBlock("t3"), TextBlock("t1"), ToolUseBlock("Write", "i2")>>),
     SystemMessage,
     ResultMessage(3, 2, FALSE),
     ResultMessage(1, NoCost, TRUE),
     ResultMessage(2, 1, TRUE)}

\* the streams query() may produce
Scripts ==
    IF provider = "scripted" THEN SeqUpTo(SessionMessages, MaxStream)
    ELSE SeqUpTo(MainMessages, MaxEvents)

\* `await self._run_claude(prompt)`: the exchange is opened and the worker
\* waits for the first message
open_exchange(w, prompt) ==
    \E s \in Scripts :
        workers' = (workers \ {w})
                     \cup {[w EXCEPT !.state = "streaming", !.prompt = prompt, !.stream = s]}

run_phase_plan(w) ==
    /\ w.phase = "plan" /\ w.state = "pending"
    /\ running' = TRUE
    /\ output' = <<Entry("Phase 1: Architecture", "", <<>>),
                   Entry("Planning:", "", w.description)>>
    /\ fs' = mkdir(fs, {"docs"})
    /\ open_exchange(w, Prompt("architecture", w.description,
                               prefix(slugify(w.description), SlugCap),
                               NoPath, NoPath, 0))
    /\ UNCHANGED <<files, slug, total_cost, total_turns, nworkers, screen, nchanges, provider>>

run_phase_roadmap(w) ==
    /\ w.phase = "roadmap" /\ w.state = "pending"
    /\ running' = TRUE
    /\ IF files["architecture"] = NoPath
       THEN \* AttributeError: None has no attribute name
            /\ output' = <<Entry("Phase 2: Roadmap", "", <<>>)>>
            /\ crash
       ELSE /\ output' = <<Entry("Phase 2: Roadmap", "", <<>>),
                           Entry("Reading:", "", files["architecture"].name)>>
            /\ open_exchange(w, Prompt("roadmap", <<>>, slug,
                                       files["architecture"], NoPath, 0))
            /\ UNCHANGED screen
    /\ UNCHANGED <<fs, files, slug, total_cost, total_turns, nworkers, nchanges, provider>>

run_phase_phases(w) ==
    /\ w.phase = "phases" /\ w.state = "pending"
    /\ running' = TRUE
    /\ IF files["roadmap"] = NoPath
       THEN \* AttributeError: None has no attribute name
            /\ output' = <<Entry("Phase 3: Phase Files", "", <<>>)>>
            /\ crash
            /\ UNCHANGED fs
       ELSE /\ output' = <<Entry("Phase 3: Phase Files", "", <<>>),
                           Entry("Reading:", "", files["roadmap"].name)>>
            /\ IF ~dir_exists(fs, "docs")
               THEN \* FileNotFoundError: mkdir without parents
                    crash /\ UNCHANGED fs
               ELSE /\ fs' = mkdir(fs, {"docs/phases"})
                    /\ open_exchange(w, Prompt("phases", <<>>, slug,
                                               NoPath, files["roadmap"], 0))
                    /\ UNCHANGED screen
    /\ UNCHANGED <<files, slug, total_cost, total_turns, nworkers, nchanges, provider>>

run_phase_prompt(w) ==
    /\ w.phase = "prompt" /\ w.state = "pending"
    /\ running' = TRUE
    /\ output' = <<Entry("Phase 4: Resume Prompt", "", <<>>)>>
    /\ open_exchange(w, Prompt("resume_prompt", <<>>, slug, NoPath,
                               IF files["roadmap"] # NoPath THEN files["roadmap"]
                               ELSE DefaultRoadmap,
                               0))
    /\ UNCHANGED <<fs, files, slug, total_cost, total_turns, nworkers, screen, nchanges, provider>>

\* the mutation of C20: a worker that opens its exchange without setting
\* self.running
run_phase_execute_unflagged(w) ==
    /\ w.phase = "execute" /\ w.state = "pending"
    /\ output' = <<Entry("Executing Work", "", <<>>)>>
    /\ IF files["resume_prompt"] = NoPath \/ ~file_exists(fs, files["resume_prompt"])
       THEN crash
       ELSE /\ open_exchange(w, Prompt("execute", <<>>, None, NoPath, NoPath,
                                       fs.file[files["resume_prompt"]]))
            /\ UNCHANGED screen
    /\ UNCHANGED <<fs, files, slug, running, total_cost, total_turns, nworkers,
                   nchanges, provider>>

run_phase_execute(w) ==
    /\ w.phase = "execute" /\ w.state = "pending"
    /\ running' = TRUE
    /\ output' = <<Entry("Executing Work", "", <<>>)>>
    /\ IF files["resume_prompt"] = NoPath \/ ~file_exists(fs, files["resume_prompt"])
       THEN \* AttributeError on None, or FileNotFoundError of read_text
            crash
       ELSE /\ open_exchange(w, Prompt("execute", <<>>, None, NoPath, NoPath,
                                       fs.file[files["resume_prompt"]]))
            /\ UNCHANGED screen
    /\ UNCHANGED <<fs, files, slug, total_cost, total_turns, nworkers, nchanges, provider>>

\* one iteration of the `async for` of _run_claude
run_claude_message(w) ==
    /\ w.state = "streaming" /\ w.pos < Len(w.stream)
    /\ LET message == w.stream[w.pos + 1]
       IN  /\ output' = next_writes(message)
           /\ workers' = (workers \ {w})
                \cup {[w EXCEPT !.pos = @ + 1,
                                !.result_info = next_info(@, message),
                                !.written = @ \o next_writes(message)]}
    /\ UNCHANGED <<fs, files, slug, running, total_cost, total_turns, nworkers,
                   screen, nchanges, provider>>

\* the artifact named in the completion message of a phase
CompletionPath(w) ==
    CASE w.phase = "plan" -> Artifact("architecture", fmt(w.prompt.slug)).name
      [] w.phase = "roadmap" -> Artifact("roadmap", fmt(slug)).name
      [] w.phase = "phases" -> fmt(slug) \o <<"_","P","H","A","S","E","_","*">> \o MD
      [] w.phase = "prompt" -> Artifact("resume_prompt", fmt(slug)).name
      [] w.phase = "execute" -> <<>>

\* the completion message of a phase
CompletionEntry(w) ==
    CASE w.phase = "plan" -> Entry("Architecture complete:", "", CompletionPath(w))
      [] w.phase = "roadmap" -> Entry("Roadmap complete:", "", CompletionPath(w))
      [] w.phase = "phases" -> Entry("Phase files complete:", "", CompletionPath(w))
      [] w.phase = "prompt" -> Entry("Resume prompt complete:", "", CompletionPath(w))
      [] w.phase = "execute" -> Entry("Session complete", "", CompletionPath(w))

\* the mutation of C15: a completion that does not call refresh_status
phase_complete_stale(w) ==
    /\ w.state = "streaming" /\ w.pos = Len(w.stream)
    /\ update_info(or_zero(dict_get(w.result_info, "total_cost_usd", 0)),
                   dict_get(w.result_info, "num_turns", 0))
    /\ output' = <<CompletionEntry(w)>>
    /\ running' = FALSE
    /\ workers' = workers \ {w}
    /\ UNCHANGED <<fs, files, slug, nworkers, screen, nchanges, provider>>

\* the stream ends: _run_claude returns result_info and run_phase_* goes on
\* to its end
phase_complete(w) ==
    /\ w.state = "streaming" /\ w.pos = Len(w.stream)
    /\ update_info(or_zero(dict_get(w.result_info, "total_cost_usd", 0)),
                   dict_get(w.result_info, "num_turns", 0))
    /\ output' = <<CompletionEntry(w)>>
    /\ refresh_status(fs)
    /\ running' = FALSE
    /\ workers' = workers \ {w}
    /\ UNCHANGED <<fs, nworkers, screen, nchanges, provider>>

\* the mutation of C17: a dropped session whose artifacts are rolled back
stream_error_rollback(w) ==
    /\ w.state = "streaming"
    /\ crash
    /\ output' = <<>>
    /\ fs' = [fs EXCEPT !.file = [p \in {q \in DOMAIN @ : q.dir = ".claude/commands"} |-> @[p]]]
    /\ UNCHANGED <<files, slug, running, total_cost, total_turns, nworkers, nchanges, provider>>

\* the stream is dropped: query() raises, nothing catches it
stream_error(w) ==
    /\ w.state = "streaming"
    /\ crash
    /\ output' = <<>>
    /\ UNCHANGED <<fs, files, slug, running, total_cost, total_turns, nworkers, nchanges, provider>>

----------------------------------------------------------------------------
(* The environment: the provider's file writes and other external edits *)

\* the artifact kind a phase asks the provider to write
KindOf(phase) ==
    CASE phase = "plan" -> "architecture"
      [] phase = "roadmap" -> "roadmap"
      [] phase = "phases" -> "phase_index"
      [] phase = "prompt" -> "resume_prompt"

\* the files external edits create in the application specification
BaseFiles == {Artifact(k, <<"a">>) : k \in Kinds}

\* the contents a file may be given
Contents(p) == IF endswith(p.name, RESUME_PROMPT \o MD) THEN {1, 2} ELSE {1}

\* a file is written by another process, its directories created as needed
create(f, p, c) ==
    write_text(mkdir(f, {p.dir} \cup (IF p.dir = "docs/phases" THEN {"docs"} ELSE {})), p, c)

env_frame ==
    /\ nchanges < MaxFsChanges
    /\ nchanges' = nchanges + 1
    /\ output' = <<>>
    /\ UNCHANGED <<files, slug, running, total_cost, total_turns, workers, nworkers,
                   screen, provider>>

\* the provider writes the artifact the prompt of an open exchange names
provider_write(w) ==
    /\ w.state = "streaming" /\ w.phase # "execute"
    /\ \E c \in Contents(Artifact(KindOf(w.phase), fmt(w.prompt.slug))) :
          fs' = create(fs, Artifact(KindOf(w.phase), fmt(w.prompt.slug)), c)
    /\ fs' # fs
    /\ env_frame

external_create ==
    /\ \E p \in BaseFiles : \E c \in Contents(p) : fs' = create(fs, p, c)
    /\ fs' # fs
    /\ env_frame

external_delete ==
    /\ \E p \in DOMAIN fs.file : fs' = remove(fs, p)
    /\ env_frame

----------------------------------------------------------------------------
(* The application specification *)

\* a consistent directory tree
WellFormed(f) ==
    /\ \A p \in DOMAIN f.file : p.dir \in f.dirs
    /\ "docs/phases" \in f.dirs => "docs" \in f.dirs

\* the project directories the application may be started in
InitialFs ==
    {f \in {[dirs |-> D, file |-> [p \in S |-> 1]] :
               D \in SUBSET {"docs", "docs/phases"}, S \in SUBSET BaseFiles} :
        WellFormed(f)}

\* OuterApp.__init__
Constructed ==
    /\ files = <<>>
    /\ slug = None
    /\ running = FALSE
    /\ total_cost = 0
    /\ total_turns = 0
    /\ workers = {}
    /\ nworkers = 0
    /\ screen = "init"
    /\ nchanges = 0
    /\ output = <<>>

Init ==
    /\ fs \in InitialFs
    /\ provider = "brief"
    /\ Constructed

\* the descriptions typed into the plan dialog
Inputs == {<<" ">>, <<"B", " ">>}

Mount == on_mount

KeyPlan == screen = "main" /\ action_run_plan
KeyRoadmap == screen = "main" /\ action_run_roadmap
KeyPhases == screen = "main" /\ action_run_phases
KeyPrompt == screen = "main" /\ action_run_prompt
KeyInstall == screen = "main" /\ action_run_install
KeyExecute == screen = "main" /\ action_run_execute
KeyRefresh == screen = "main" /\ action_refresh
KeyClear == screen = "main" /\ action_clear_output
KeyQuit == screen = "main" /\ action_quit

ButtonPlan ==
    screen = "main" /\ on_button_pressed(action_run_plan)
ButtonRoadmap ==
    screen = "main" /\ on_button_pressed(action_run_roadmap)
ButtonPhases ==
    screen = "main" /\ on_button_pressed(action_run_phases)
ButtonPrompt ==
    screen = "main" /\ on_button_pressed(action_run_prompt)
ButtonInstall ==
    screen = "main" /\ on_button_pressed(action_run_install)
ButtonExecute ==
    screen = "main" /\ on_button_pressed(action_run_execute)

DialogSubmitButton ==
    screen = "plan" /\ (\E t \in Inputs : plan_submit_button(t))
DialogSubmitEnter ==
    screen = "plan" /\ (\E t \in Inputs : on_input_submitted(t))
DialogCancelButton ==
    screen = "plan" /\ plan_cancel_button
DialogCancelKey ==
    screen = "plan" /\ action_cancel

StartPlan == \E w \in workers : run_phase_plan(w)
StartRoadmap ==
    \E w \in workers : run_phase_roadmap(w)
StartPhases ==
    \E w \in workers : run_phase_phases(w)
StartPrompt ==
    \E w \in workers : run_phase_prompt(w)
StartExecute ==
    \E w \in workers : run_phase_execute(w)
Message ==
    \E w \in workers : run_claude_message(w)
Complete ==
    \E w \in workers : phase_complete(w)
StreamError ==
    \E w \in workers : stream_error(w)

ProviderWrite ==
    \E w \in workers : provider_write(w)
ExternalCreate == external_create
ExternalDelete == external_delete

Next ==
    \/ Mount
    \/ KeyPlan \/ KeyRoadmap \/ KeyPhases \/ KeyPrompt \/ KeyInstall \/ KeyExecute
    \/ KeyRefresh \/ KeyClear \/ KeyQuit
    \/ ButtonPlan \/ ButtonRoadmap \/ ButtonPhases \/ ButtonPrompt \/ ButtonInstall
    \/ ButtonExecute
    \/ DialogSubmitButton \/ DialogSubmitEnter \/ DialogCancelButton \/ DialogCancelKey
    \/ StartPlan \/ StartRoadmap \/ StartPhases \/ StartPrompt \/ StartExecute
    \/ Message \/ Complete \/ StreamError
    \/ ProviderWrite \/ ExternalCreate \/ ExternalDelete

Spec == Init /\ [][Next]_vars

----------------------------------------------------------------------------
(* The session specification: one session, from the start of its worker to  *)
(* its end, against every stream of up to MaxStream messages.  It starts    *)
(* with the last worker the bound allows scheduled in a complete project.   *)

\* a project with one artifact of each kind
FullProject ==
    [dirs |-> {"docs", "docs/phases"}, file |-> [p \in BaseFiles |-> 1]]

InitSession ==
    /\ fs = FullProject
    /\ provider = "scripted"
    /\ files \in find_planning_files(fs)
    /\ slug = get_slug_from_files(files)
    /\ running = FALSE
    /\ total_cost = 0
    /\ total_turns = 0
    /\ \E ph \in Phases :
          workers = {NewWorker(MaxWorkers, ph, IF ph = "plan" THEN <<"B">> ELSE <<>>)}
    /\ nworkers = MaxWorkers
    /\ screen = "main"
    /\ nchanges = MaxFsChanges
    /\ output = <<>>

NextSession ==
    \/ StartPlan \/ StartRoadmap \/ StartPhases \/ StartPrompt \/ StartExecute
    \/ Message \/ Complete \/ StreamError

SpecSession == InitSession /\ [][NextSession]_vars

\* the steps of a worker: the event loop runs a task that is ready, and the
\* provider goes on delivering the stream it has opened
WorkerStep ==
    \/ StartPlan \/ StartRoadmap \/ StartPhases \/ StartPrompt \/ StartExecute
    \/ Message \/ Complete

\* the session specification with its progress: a worker that can take a
\* step eventually takes one (a dropped stream stays possible, never forced)
SpecSessionLive == InitSession /\ [][NextSession]_vars /\ WF_vars(WorkerStep)

----------------------------------------------------------------------------
(* The locator specification: find_planning_files and get_slug_from_files   *)
(* (through on_mount and the refresh action) on every directory tree made   *)
(* of the files below.                                                      *)

Name(prefix_, suffix) == prefix_ \o suffix \o MD

\* files that match a pattern, files that match none, files in the wrong
\* directory, names that carry the suffix of another kind
LocateFiles ==
    {[dir |-> "docs", name |-> Name(<<"a">>, ARCHITECTURE)],
     [dir |-> "docs", name |-> Name(<<"b","_","R","O","A","D","M","A","P">>, ARCHITECTURE)],
     [dir |-> "docs", name |-> Name(<<>>, ARCHITECTURE)],
     [dir |-> "docs", name |-> <<"a">> \o ARCHITECTURE \o <<".","t","x","t">>],
     [dir |-> "docs/phases", name |-> Name(<<"e">>, ARCHITECTURE)],
     [dir |-> "docs", name |-> Name(<<"c">>, ROADMAP)],
     [dir |-> "docs", name |-> Name(<<"d","_","x">>, RESUME_PROMPT)],
     [dir |-> "docs", name |-> Name(<<"e">>, PHASE_INDEX)],
     [dir |-> "docs/phases", name |-> Name(<<"f">>, PHASE_INDEX)],
     [dir |-> "docs", name |-> <<"n","o","t","e","s">> \o MD]}

LocateFs ==
    {f \in {[dirs |-> D, file |-> [p \in S |-> 1]] :
               D \in SUBSET {"docs", "docs/phases"}, S \in SUBSET LocateFiles} :
        WellFormed(f)}

InitLocate ==
    /\ fs \in LocateFs
    /\ provider = "brief"
    /\ Constructed

NextLocate == Mount \/ KeyRefresh

SpecLocate == InitLocate /\ [][NextLocate]_vars

----------------------------------------------------------------------------
(* The identity specification: the architecture phase on every description  *)
(* made of an empty or a long alphanumeric head and a tail of up to MaxTail *)
(* characters, in an empty project directory.                               *)

\* the characters of the tails: a lowercase and an uppercase letter, a digit,
\* a blank and the separator itself
Alphabet == {"a", "B", "1", " ", "_"}

\* the descriptions handed to run_phase_plan: the dialog's text.strip(),
\* never empty (handle_result)
Descriptions ==
    {d \in {head \o tail : head \in {<<>>, [i \in 1..PadLen |-> "a"]},
                           tail \in SeqUpTo(Alphabet, MaxTail)} :
        d # <<>> /\ strip_ws(d) = d}

EmptyProject == [dirs |-> {}, file |-> <<>>]

InitSlug ==
    /\ fs = EmptyProject
    /\ provider = "brief"
    /\ files \in find_planning_files(fs)
    /\ slug = get_slug_from_files(files)
    /\ running = FALSE
    /\ total_cost = 0
    /\ total_turns = 0
    /\ \E d \in Descriptions : workers = {NewWorker(MaxWorkers, "plan", d)}
    /\ nworkers = MaxWorkers
    /\ screen = "main"
    /\ nchanges = 0
    /\ output = <<>>

NextSlug == StartPlan \/ Message \/ Complete \/ StreamError \/ ProviderWrite

SpecSlug == InitSlug /\ [][NextSlug]_vars

----------------------------------------------------------------------------
(* Properties *)

\* the prerequisite table of the phase gate (spec 4.2)
Prerequisite(ph) ==
    CASE ph = "roadmap" -> "architecture"
      [] ph = "phases" -> "roadmap"
      [] ph = "prompt" -> "phase_index"
      [] ph = "execute" -> "resume_prompt"

GatedPhases == {"roadmap", "phases", "prompt", "execute"}

\* a request for a phase: its key binding or its button
Request(ph) ==
    \/ ph = "plan" /\ (KeyPlan \/ ButtonPlan)
    \/ ph = "roadmap" /\ (KeyRoadmap \/ ButtonRoadmap)
    \/ ph = "phases" /\ (KeyPhases \/ ButtonPhases)
    \/ ph = "prompt" /\ (KeyPrompt \/ ButtonPrompt)
    \/ ph = "execute" /\ (KeyExecute \/ ButtonExecute)

\* the step schedules a new worker for the phase
Scheduled(ph) ==
    /\ nworkers' = nworkers + 1
    /\ \E v \in workers' : v.id = nworkers' /\ v.phase = ph /\ v.state = "pending"

\* the workers inside _run_claude
InFlight == {w \in workers : w.state = "streaming"}

\* the step ends the session of w: the worker is gone and running is reset
Completed(w) ==
    /\ w \in workers /\ w.state = "streaming"
    /\ \A v \in workers' : v.id # w.id
    /\ running /\ ~running'

\* C1: at most one provider exchange is in flight in every reachable state,
\* whatever the interleaving of requests, dialog submissions, worker steps and
\* provider events.
C1_SingleFlight == Cardinality(InFlight) <= 1

\* C1 witness: a plan submitted while a session was in flight: the session
\* has been cancelled (running is still set), the plan worker is scheduled.
C1_Witness ==
    /\ running
    /\ InFlight = {}
    /\ \E w \in workers : w.phase = "plan" /\ w.state = "pending" /\ w.id = MaxWorkers

\* C2: with no session active, a request for a gated phase schedules its
\* session if and only if the prerequisite artifact is located; a request for
\* the architecture phase is never refused (it opens the plan dialog, whose
\* submission with a description schedules the session).
C2_GateIff ==
    [][/\ \A ph \in GatedPhases :
             (screen = "main" /\ ~running /\ Request(ph))
                => (Scheduled(ph) <=> files[Prerequisite(ph)] # NoPath)
       /\ (screen = "main" /\ ~running /\ Request("plan")) => screen' = "plan"
       /\ (DialogSubmitEnter /\ screen' = "main") => Scheduled("plan")
      ]_vars

\* C2 witness: the phase files session is scheduled with the roadmap located
\* and the architecture not.
C2_Witness ==
    /\ ~running
    /\ screen = "main"
    /\ files["roadmap"] # NoPath /\ files["architecture"] = NoPath
    /\ \E w \in workers : w.phase = "phases" /\ w.state = "pending"

\* the message that names a missing artifact and the command to run
MissingMessage(kind) ==
    CASE kind = "architecture" -> "No architecture file found. Run Plan first."
      [] kind = "roadmap" -> "No roadmap file found. Run Roadmap first."
      [] kind = "phase_index" -> "No phase files found. Run Phases first."
      [] kind = "resume_prompt" -> "No resume prompt found. Run Prompt first."

\* C3: a phase requested with no session active and its prerequisite absent
\* schedules nothing and opens no exchange, writes the message naming the
\* missing artifact, leaves running false and files, slug and the totals
\* unchanged.
C3_MissingPrerequisite ==
    [][\A ph \in GatedPhases :
          (screen = "main" /\ ~running /\ files[Prerequisite(ph)] = NoPath /\ Request(ph))
             => /\ output' = <<Entry(MissingMessage(Prerequisite(ph)), "", <<>>)>>
                /\ workers' = workers /\ nworkers' = nworkers
                /\ ~running'
                /\ UNCHANGED <<files, slug, total_cost, total_turns>>
      ]_vars

\* C3 witness: the roadmap was requested with no architecture located.
C3_Witness ==
    /\ screen = "main" /\ ~running
    /\ files["architecture"] = NoPath
    /\ output = <<Entry(MissingMessage("architecture"), "", <<>>)>>

C5_RecoveredIdentity ==
    [][\A w \in workers : \A v \in workers' :
          (/\ v.id = w.id /\ w.state = "pending" /\ v.state = "streaming"
           /\ v.phase # "execute"
           /\ \E k \in Kinds : files[k] # NoPath)
             => v.prompt.slug = get_slug_from_files(files)
      ]_vars


\* the identity a located file embeds: its name without the extension and
\* without the suffix of its kind
Identity(kind, path) == drop_last(path.name, Len(MD) + Len(Suffix(kind)))

\* the priority order of derive_identity (spec 4.1)
Priority == <<"architecture", "roadmap", "resume_prompt", "phase_index">>

\* the identity of the first present artifact in the priority order
FirstIdentity(fl) ==
    IF \A i \in 1..4 : fl[Priority[i]] = NoPath THEN None
    ELSE LET i == CHOOSE i \in 1..4 :
                    /\ fl[Priority[i]] # NoPath
                    /\ \A j \in 1..(i-1) : fl[Priority[j]] = NoPath
         IN  Identity(Priority[i], fl[Priority[i]])

\* C6: the slug recovered from a located ArtifactSet is the identity of the
\* first present artifact in the order architecture, roadmap, resume_prompt,
\* phase_index; with the architecture present it is the architecture's.
C6_SlugPriority ==
    screen # "init" =>
        /\ slug = FirstIdentity(files)
        /\ files["architecture"] # NoPath
              => slug = Identity("architecture", files["architecture"])

\* C6 witness: an architecture whose identity ends in the suffix of another
\* kind is located beside a roadmap and a resume prompt of other identities.
C6_Witness ==
    /\ screen = "main"
    /\ slug = <<"b","_","R","O","A","D","M","A","P">>
    /\ files["roadmap"] # NoPath /\ files["resume_prompt"] # NoPath

\* the files of a kind: those directly in its directory whose name ends with
\* its suffix and extension
Candidates(kind) ==
    {p \in DOMAIN fs.file : p.dir = DirOf(kind) /\ endswith(p.name, Suffix(kind) \o MD)}

\* C7: a slot is filled if and only if a file of its kind exists, and then
\* holds one of them; with docs/ absent or empty every slot is empty and the
\* slug is none; the slug is none only when every slot is empty.
C7_Locate ==
    screen # "init" =>
        /\ \A k \in Kinds :
              /\ files[k] # NoPath <=> Candidates(k) # {}
              /\ files[k] # NoPath => files[k] \in Candidates(k)
        /\ ("docs" \notin fs.dirs \/ DOMAIN fs.file = {})
              => (\A k \in Kinds : files[k] = NoPath) /\ slug = None
        /\ slug = None => \A k \in Kinds : files[k] = NoPath

\* C7 witness: docs/ and docs/phases/ hold files, each of a kind misplaced or
\* with another extension, and nothing is located.
C7_Witness ==
    /\ screen = "main"
    /\ slug = None
    /\ \E p \in DOMAIN fs.file : p.dir = "docs/phases" /\ endswith(p.name, ARCHITECTURE \o MD)
    /\ \E p \in DOMAIN fs.file : p.dir = "docs" /\ endswith(p.name, PHASE_INDEX \o MD)

\* the result events of a stream, in order
Results(stream) == SelectSeq(stream, LAMBDA m : m.type = "ResultMessage")

\* the cost and turns of the last result event of a stream, zero without one
\* (a result that reports no cost counts as zero)
StreamCost(stream) ==
    LET rs == Results(stream)
    IN  IF rs = <<>> \/ rs[Len(rs)].total_cost_usd = NoCost THEN 0
        ELSE rs[Len(rs)].total_cost_usd
StreamTurns(stream) ==
    LET rs == Results(stream) IN IF rs = <<>> THEN 0 ELSE rs[Len(rs)].num_turns

\* C8: the session that completes adds to the totals exactly the cost and
\* turns of the result event of its stream, and zero of each when the stream
\* ended without a result event.
C8_Contribution ==
    [][\A w \in workers :
          Completed(w) => /\ total_cost' = total_cost + StreamCost(w.stream)
                          /\ total_turns' = total_turns + StreamTurns(w.stream)
      ]_vars

\* C8 witness: a session whose stream carried a result event of cost 2 and
\* 3 turns is over, and the totals hold them.
C8_Witness ==
    /\ provider = "scripted"
    /\ workers = {} /\ ~running /\ screen = "main"
    /\ total_cost = 2 /\ total_turns = 3

\* the entries that report a session as successfully complete
SuccessTags ==
    {"Architecture complete:", "Roadmap complete:", "Phase files complete:",
     "Resume prompt complete:", "Session complete"}

\* the stream carries a result event, and the last one reports no error
Succeeded(stream) ==
    LET rs == Results(stream) IN rs # <<>> /\ ~rs[Len(rs)].is_error

\* C9 (as claimed): a session is reported as successfully complete only when
\* its stream ended with a result event whose is_error is false; a reported
\* error and an absent result are reported otherwise.
C9_OutcomeDistinguished ==
    [][\A w \in workers :
          (Completed(w) /\ \E i \in 1..Len(output') : output'[i].tag \in SuccessTags)
             => Succeeded(w.stream)
      ]_vars

\* the text and tool-invocation blocks of the messages of a stream, in order
RECURSIVE Blocks(_)
Blocks(stream) ==
    IF stream = <<>> THEN <<>>
    ELSE (IF Head(stream).type = "AssistantMessage"
          THEN SelectSeq(Head(stream).content,
                         LAMBDA b : b.type \in {"TextBlock", "ToolUseBlock"})
          ELSE <<>>)
         \o Blocks(Tail(stream))

\* a block as the display sink receives it: the text unchanged, or the marker
\* of a tool invocation with its name and nothing else of the block
Forwarded(blocks) ==
    [i \in 1..Len(blocks) |->
        IF blocks[i].type = "TextBlock" THEN Entry("text", blocks[i].text, <<>>)
        ELSE Entry("tool", blocks[i].name, <<>>)]

\* C10: each message received writes to the log one entry per text or tool
\* block, in the order of the blocks, and the entries written so far in the
\* session are those of all the blocks received so far, in order.
C10_ForwardedInOrder ==
    [][\A w \in workers : \A v \in workers' :
          (v.id = w.id /\ w.state = "streaming" /\ v.pos = w.pos + 1)
             => /\ output' = Forwarded(Blocks(<<w.stream[v.pos]>>))
                /\ v.written = Forwarded(Blocks(SubSeq(v.stream, 1, v.pos)))
      ]_vars

\* C10 witness: three messages were received, a tool marker was written
\* before a text and another text before a tool marker.
C10_Witness ==
    \E w \in workers :
        /\ w.pos = 3 /\ Len(w.written) >= 4
        /\ w.written[1].tag = "tool" /\ w.written[2].tag = "text"
        /\ w.written[Len(w.written)].tag = "tool"

\* C11: the totals are zero at construction, and every step either completes
\* a session and adds exactly the cost and turns of its result (zero of each
\* without a result) or leaves both totals as they are; so the totals are the
\* sums over the sessions completed so far, and they never decrease.
C11_TotalsAreSums ==
    /\ total_cost = 0 /\ total_turns = 0
    /\ [][/\ \A w \in workers :
                Completed(w) => /\ total_cost' = total_cost + StreamCost(w.stream)
                                /\ total_turns' = total_turns + StreamTurns(w.stream)
          /\ (~ \E w \in workers : Completed(w))
                => UNCHANGED <<total_cost, total_turns>>
          /\ total_cost' >= total_cost /\ total_turns' >= total_turns
         ]_vars

\* C11 witness: two sessions have completed, each with a result of cost 1 and
\* 2 turns, and the totals are their sums.
C11_Witness ==
    /\ nworkers = 2 /\ workers = {} /\ ~running /\ screen = "main"
    /\ total_cost = 2 /\ total_turns = 4

\* C12 (as claimed): whenever the worker of the roadmap, phase files or
\* execute phase starts and renders its request, the artifact its gate
\* checked is still bound in files and the slug is bound, whatever refreshes
\* and external changes came between the gate check and the start.
C12_ContextBound ==
    [][/\ StartRoadmap => files["architecture"] # NoPath /\ slug # None
       /\ StartPhases => files["roadmap"] # NoPath /\ slug # None
       /\ StartExecute => files["resume_prompt"] # NoPath /\ slug # None
      ]_vars

\* a normalized token: lowercase alphanumeric runs joined by single
\* underscores, with no underscore at either end; or the empty string
Normalized(s) ==
    /\ \A i \in 1..Len(s) : s[i] \in AlnumLower \cup {"_"}
    /\ s # <<>> => s[1] # "_" /\ s[Len(s)] # "_"
    /\ \A i \in 1..(Len(s) - 1) : ~(s[i] = "_" /\ s[i+1] = "_")

\* the description has a character of [a-z0-9] once lowercased
HasAlnum(d) == \E i \in 1..Len(d) : lower(d[i]) \in AlnumLower

\* C13: for every description, slugify gives the empty string exactly when
\* the lowercased description has no character of [a-z0-9], and otherwise
\* lowercase alphanumeric runs joined by single underscores with no leading,
\* trailing or doubled underscore; it is what the architecture phase binds
\* for a description short enough not to be cut.
C13_SlugifyForm ==
    \A w \in workers :
        w.phase = "plan" =>
            /\ Normalized(slugify(w.description))
            /\ slugify(w.description) = <<>> <=> ~HasAlnum(w.description)
            /\ (w.state = "streaming" /\ Len(w.description) <= SlugCap)
                  => w.prompt.slug = slugify(w.description)

\* C13 witness: the architecture phase has bound the slug of a description
\* with an uppercase letter, a blank next to an underscore and a digit.
C13_Witness ==
    \E w \in workers :
        /\ w.state = "streaming"
        /\ w.description = <<"B", " ", "_", "1">> \/ w.description = <<"B", " ", "1">>
        /\ w.prompt.slug = <<"b", "_", "1">>

\* C14 (as claimed): the identity the architecture phase binds into its
\* prompt is at most 30 characters long and a normalized token, with no
\* leading and no trailing separator.
C14_BoundIdentityNormalized ==
    \A w \in workers :
        (w.phase = "plan" /\ w.state = "streaming")
            => /\ Len(w.prompt.slug) <= SlugCap
               /\ Normalized(w.prompt.slug)

\* C15: in the step that resets running from true to false, files becomes a
\* result of find_planning_files on the file system of that moment, slug
\* becomes get_slug_from_files of it, and the cost and turns of the session
\* that ends are added to the totals in the same step.
C15_RefreshedOnCompletion ==
    [][(running /\ ~running')
          => /\ files' \in find_planning_files(fs')
             /\ slug' = get_slug_from_files(files')
             /\ \E w \in workers :
                   /\ Completed(w)
                   /\ total_cost' = total_cost + StreamCost(w.stream)
                   /\ total_turns' = total_turns + StreamTurns(w.stream)
      ]_vars

\* C15 witness: the architecture session of description "B" has just
\* completed; the file the provider wrote during it is located, the slug is
\* recovered from it and the result is in the totals.
C15_Witness ==
    /\ ~running /\ workers = {}
    /\ output # <<>> /\ output[1].tag = "Architecture complete:"
    /\ files["architecture"] = Artifact("architecture", <<"b">>)
    /\ slug = <<"b">>
    /\ total_turns = 2

\* C16: an install requested with no session active and the located resume
\* prompt on disk leaves the command file resume-{slug with hyphens}.md in
\* .claude/commands with the content of the resume prompt, whether or not
\* the file was there before; every other file is as it was, no worker is
\* scheduled, and running and the totals are unchanged.
C16_Install ==
    [][(/\ KeyInstall \/ ButtonInstall
        /\ screen = "main" /\ ~running
        /\ files["resume_prompt"] # NoPath
        /\ file_exists(fs, files["resume_prompt"]))
          => /\ ".claude/commands" \in fs'.dirs
             /\ file_exists(fs', CommandFile(slug))
             /\ fs'.file[CommandFile(slug)] = fs.file[files["resume_prompt"]]
             /\ DOMAIN fs'.file = DOMAIN fs.file \cup {CommandFile(slug)}
             /\ \A p \in DOMAIN fs.file :
                   p # CommandFile(slug) => fs'.file[p] = fs.file[p]
             /\ UNCHANGED <<running, total_cost, total_turns, workers, nworkers>>
      ]_vars

\* C16 witness: the install has just left the command file with content 2,
\* the content the resume prompt was given after start (by then a command
\* file of content 1 may or may not have been installed).
C16_Witness ==
    /\ screen = "main" /\ ~running
    /\ output # <<>> /\ output[1].tag = "Installed slash command:"
    /\ nchanges = 1
    /\ file_exists(fs, CommandFile(<<"a">>))
    /\ fs.file[CommandFile(<<"a">>)] = 2

\* the planning artifact files of a tree: the files under docs/, with their
\* contents
ArtifactFiles(f) ==
    [p \in {q \in DOMAIN f.file : q.dir \in {"docs", "docs/phases"}} |-> f.file[p]]

\* the step is one of the environment: a write of the provider or an
\* external edit (the only steps that count a change)
EnvironmentStep == nchanges' # nchanges

\* C17: every step of the driver (requests, gate checks, dialog, refresh,
\* install, session start, messages, completion, cancellation, crash) leaves
\* the set and the contents of the artifact files as they are; they change
\* only in steps of the provider or of external edits.
C17_ArtifactsExternal ==
    [][~EnvironmentStep => ArtifactFiles(fs') = ArtifactFiles(fs)]_vars

\* C17 witness: a session was abandoned (cancelled by a plan submitted from
\* the dialog: running is set and no exchange is open), the file system was
\* changed once, and a refresh has just located both artifacts on disk.
C17_Witness ==
    /\ running /\ InFlight = {} /\ screen = "main"
    /\ \E w \in workers : w.phase = "plan" /\ w.state = "pending"
    /\ nchanges = 1
    /\ output = <<Entry("Status refreshed", "", <<>>)>>
    /\ files["architecture"] # NoPath /\ files["roadmap"] # NoPath
    /\ ArtifactFiles(fs) = [p \in {Artifact("architecture", <<"a">>),
                                    Artifact("roadmap", <<"a">>)} |-> 1]

\* C18 (as claimed): whenever the resume prompt session starts, the
\* roadmap_path bound into its prompt is the path of the roadmap artifact of
\* the current files, for every files that passes the gate of the phase.
C18_RoadmapPathBound ==
    [][StartPrompt =>
          \A v \in workers' :
              (v.phase = "prompt" /\ v.state = "streaming")
                 => /\ files["roadmap"] # NoPath
                    /\ v.prompt.roadmap_path = files["roadmap"]
      ]_vars

\* C19 (as claimed): every session that has started, with its exchange open,
\* is eventually followed by a state in which running is false, whether the
\* stream ends with a result, without one, or is dropped with an error.
C19_EventuallyIdle == (InFlight # {}) ~> ~running

\* C20: in every reachable state, if a worker is inside _run_claude (its
\* exchange is open) then running is true.
C20_RunningWhileOpen == InFlight # {} => running

\* C20 witness: the exchange of the second worker is open, after the first
\* was cancelled or had completed, and running is true.
C20_Witness ==
    /\ running
    /\ \E w \in InFlight : w.id = 2 /\ w.pos = Len(w.stream)

\* the steps that call refresh_status: on_mount, the refresh action, an
\* install, and the end of a session
RefreshStep ==
    \/ Mount \/ KeyRefresh
    \/ KeyInstall \/ ButtonInstall
    \/ Complete

\* C21: in every state after on_mount the cached slug is get_slug_from_files
\* of the cached files; files and slug change only in a step that calls
\* refresh_status, which replaces files by a result of find_planning_files
\* on the tree of that moment.
C21_SlugOfFiles ==
    /\ [](screen # "init" => slug = get_slug_from_files(files))
    /\ [][(files' # files \/ slug' # slug)
             => /\ RefreshStep
                /\ files' \in find_planning_files(fs')
          ]_vars

\* C21 witness: the roadmap session was scheduled with the architecture
\* located; the only file of the project was then deleted and a refresh has
\* just replaced both: no artifact is located and the slug is none.
C21_Witness ==
    /\ screen = "main"
    /\ \E w \in workers : w.phase = "roadmap" /\ w.state = "pending"
    /\ output = <<Entry("Status refreshed", "", <<>>)>>
    /\ nchanges = 1 /\ DOMAIN fs.file = {}
    /\ \A k \in Kinds : files[k] = NoPath
    /\ slug = None

\* C22: when the architecture session completes in a project whose only
\* file is docs/{s}_ARCHITECTURE.md, s the slug the session bound into its
\* prompt, the refresh of that step locates the file and recovers exactly s,
\* the identity the later phases bind into their prompts.
C22_IdentityRoundTrip ==
    [][\A w \in workers :
          (/\ Completed(w) /\ w.phase = "plan"
           /\ DOMAIN fs.file = {Artifact("architecture", w.prompt.slug)})
             => /\ files' = [k \in Kinds |->
                                IF k = "architecture"
                                THEN Artifact("architecture", w.prompt.slug)
                                ELSE NoPath]
                /\ slug' = w.prompt.slug
      ]_vars

\* C22 witness: the architecture written for a slug cut at 30 characters
\* just after a separator is located, and that slug is recovered with its
\* trailing underscore.
C22_Witness ==
    /\ ~running /\ workers = {} /\ screen = "main"
    /\ output # <<>> /\ output[1].tag = "Architecture complete:"
    /\ Len(slug) = SlugCap /\ slug[SlugCap] = "_"
    /\ files["architecture"] = Artifact("architecture", slug)

=============================================================================
